---- MODULE Spec2Model ----
(***************************************************************************)
(* The rate-limited signup proxy of the SmartChef waitlist:                *)
(*   lib/rateLimit.ts   the in-memory fixed-window limiter, the validators *)
(*   api/signup/route.ts the POST handler in front of the MailerLite API   *)
(* Strings are sequences of one-character strings, so that trimming,       *)
(* pattern removal, truncation and regular-expression matching are         *)
(* computed the way the code computes them.  Time is in milliseconds.      *)
(***************************************************************************)
EXTENDS Integers, Sequences, FiniteSets, TLC

VARIABLES
    now,            \* Date.now()
    ticks,          \* number of clock advances so far
    rateLimitStore, \* the Map of rateLimit.ts:11, a function on the keys it holds
    hist,           \* limiter driver: the checkRateLimit calls made, with results
    slot,           \* POST invocations suspended at an await
    resp,           \* the response most recently returned by POST
    arrivals,       \* per key, the POSTs that arrived in the running window
    gate,           \* the rank in its window of the last POST, and whether it passed
    nposts,         \* number of POST invocations so far
    signupForm,     \* page.tsx: the state of the form (email and school by name)
    validationErrors, \* page.tsx: the field errors shown
    page,           \* the document: the button, what signup.js shows, the location
    flights,        \* the fetches to /api/signup that have not settled
    events,         \* the signup_event events the analytics SDK has recorded
    lastSubmit,     \* the last submit of the form, and what it led to
    given,          \* a string given to sanitizeInput
    results         \* what sanitizeInput made of it, applied again and again

serverVars == <<now, ticks, rateLimitStore, hist, slot, resp, arrivals, gate, nposts>>
clientVars == <<signupForm, validationErrors, page, flights, events, lastSubmit>>
pureVars == <<given, results>>
vars == <<now, ticks, rateLimitStore, hist, slot, resp, arrivals, gate, nposts,
          signupForm, validationErrors, page, flights, events, lastSubmit,
          given, results>>

(***************************************************************************)
(* Bounds of the model.                                                    *)
(***************************************************************************)
MaxTicks == 2
MaxCalls == 7
MaxPosts == 6
MaxRequests == 1
MaxInflight == 2
MaxSubmits == 2
MaxTokens == 3
MaxPasses == 2

(***************************************************************************)
(* Characters and strings.                                                 *)
(***************************************************************************)
LowerSeq == <<"a","b","c","d","e","f","g","h","i","j","k","l","m",
              "n","o","p","q","r","s","t","u","v","w","x","y","z">>
UpperSeq == <<"A","B","C","D","E","F","G","H","I","J","K","L","M",
              "N","O","P","Q","R","S","T","U","V","W","X","Y","Z">>
Lower == {LowerSeq[i] : i \in 1..26}
Upper == {UpperSeq[i] : i \in 1..26}
Digit == {"0","1","2","3","4","5","6","7","8","9"}
Alnum == Lower \cup Upper \cup Digit
\* \w of a JavaScript regular expression
WordChar == Alnum \cup {"_"}
\* the characters String.prototype.trim removes
WhiteSpace == {" ", "\t", "\n", "\r"}
\* the local-part class of EMAIL_REGEX (its backquote is left out: the character
\* cannot be written in a string here, and no input of the model holds one)
LocalChar == Alnum \cup {".","!","#","$","%","&","'","*","+","/","=","?","^","_","{","|","}","~","-"}

Min(a, b) == IF a < b THEN a ELSE b

\* String.prototype.repeat on a one-character string
Rep(c, n) == [i \in 1..n |-> c]

\* String.prototype.toLowerCase on one character (ASCII letters)
toLowerCase(c) ==
    IF c \in Upper THEN LowerSeq[CHOOSE i \in 1..26 : UpperSeq[i] = c] ELSE c

\* String.prototype.includes
includes(s, sub) ==
    \E i \in 1..(Len(s) - Len(sub) + 1) : SubSeq(s, i, i + Len(sub) - 1) = sub

\* String.prototype.startsWith
startsWith(s, pre) ==
    Len(s) >= Len(pre) /\ SubSeq(s, 1, Len(pre)) = pre

\* String.prototype.substring(0, n)
substring0(s, n) == SubSeq(s, 1, Min(Len(s), n))

\* String.prototype.trim
trim(s) ==
    LET keep == {i \in 1..Len(s) : s[i] \notin WhiteSpace}
    IN  IF keep = {} THEN <<>>
        ELSE LET lo == CHOOSE i \in keep : \A j \in keep : i <= j
                 hi == CHOOSE i \in keep : \A j \in keep : i >= j
             IN  SubSeq(s, lo, hi)

\* s.replace(/[<>]/g, "")
removeAngle(s) == SelectSeq(s, LAMBDA c : c \notin {"<", ">"})

\* whether the literal pat matches s at position i, ignoring case
matchesAtCI(s, i, pat) ==
    /\ i + Len(pat) - 1 <= Len(s)
    /\ \A k \in 1..Len(pat) : toLowerCase(s[i + k - 1]) = pat[k]

\* s without the characters at the positions of gone, in order
without(s, gone) ==
    LET at == [i \in 1..Len(s) |-> <<i, s[i]>>]
        left == SelectSeq(at, LAMBDA p : p[1] \notin gone)
    IN  [j \in 1..Len(left) |-> left[j][2]]

\* s.replace(/pat/gi, "") for a literal pat of which no proper prefix is a
\* suffix (each of "javascript:", "data:", "vbscript:" has its one ":" last), so
\* that two matches never overlap and the one pass removes every match
removeAllCI(s, pat) ==
    LET starts == {m \in 1..Len(s) : matchesAtCI(s, m, pat)}
    IN  without(s, {i \in 1..Len(s) : \E m \in starts : m <= i /\ i < m + Len(pat)})

\* the end of the match of /on\w+=/i at position i, or 0 when it does not match:
\* "on", then the longest run of \w (at least one), then "="
handlerEnd(s, i) ==
    IF ~matchesAtCI(s, i, <<"o","n">>) THEN 0
    ELSE LET stop == {j \in (i + 2)..(Len(s) + 1) :
                         j = Len(s) + 1 \/ s[j] \notin WordChar}
             e == CHOOSE j \in stop : \A k \in stop : j <= k
         IN  IF e > i + 2 /\ e <= Len(s) /\ s[e] = "=" THEN e ELSE 0

\* s.replace(/on\w+=/gi, ""): a match that starts inside another one ends at the
\* same "=", so the leftmost matches, which the pass removes, cover all matches
removeHandlers(s) ==
    LET end == [m \in 1..Len(s) |-> handlerEnd(s, m)]
    IN  without(s, {i \in 1..Len(s) : \E m \in 1..i : i <= end[m]})

(***************************************************************************)
(* JavaScript values: a string carries its characters; undefined, null and *)
(* numbers are kept apart, as typeof and truthiness tell them apart.       *)
(***************************************************************************)
Str(chars) == [t |-> "str", v |-> chars]
Num(n) == [t |-> "num", v |-> n]
Undefined == [t |-> "undefined"]
Null == [t |-> "null"]

\* ToBoolean
truthy(x) ==
    CASE x.t = "str" -> x.v # <<>>
      [] x.t = "num" -> x.v # 0
      [] x.t = "obj" -> TRUE
      [] OTHER -> FALSE

(***************************************************************************)
(* lib/validation: validateEmailFormat and sanitizeInput.                  *)
(***************************************************************************)
\* one label of EMAIL_REGEX: [a-zA-Z0-9](?:[a-zA-Z0-9-]{0,61}[a-zA-Z0-9])?
labelOk(l) ==
    /\ Len(l) >= 1
    /\ Len(l) <= 63
    /\ l[1] \in Alnum
    /\ l[Len(l)] \in Alnum
    /\ \A i \in 1..Len(l) : l[i] \in Alnum \cup {"-"}

\* the domain of EMAIL_REGEX: label(?:\.label)*
domainOk(d) ==
    LET cuts == {0, Len(d) + 1} \cup {i \in 1..Len(d) : d[i] = "."}
    IN  \A b \in cuts \ {Len(d) + 1} :
            LET e == CHOOSE c \in cuts : c > b /\ \A x \in cuts : x > b => c <= x
            IN  labelOk(SubSeq(d, b + 1, e - 1))

\* EMAIL_REGEX.test(email): the local-part class has no "@", so the local part
\* ends at the first "@" and the rest must be the domain
EMAIL_REGEX(email) ==
    LET ats == {i \in 1..Len(email) : email[i] = "@"}
    IN  /\ ats # {}
        /\ LET a == CHOOSE i \in ats : \A j \in ats : i <= j
           IN  /\ a > 1
               /\ \A i \in 1..(a - 1) : email[i] \in LocalChar
               /\ domainOk(SubSeq(email, a + 1, Len(email)))

EMAIL_MAX == 254

validateEmailFormat(email) ==
    /\ email # <<>>
    /\ Len(email) <= EMAIL_MAX
    /\ ~includes(email, <<".", ".">>)
    /\ ~includes(email, <<"j","a","v","a","s","c","r","i","p","t",":">>)
    /\ ~includes(email, <<"<","s","c","r","i","p","t",">">>)
    /\ EMAIL_REGEX(email)

SANITIZE_MAX == 100

\* the last two replacements of the source, of "<script" and "</script", act on
\* a string that holds no "<" any more and are the identity there
sanitizeInput(input) ==
    IF input.t # "str" THEN <<>>
    ELSE substring0(
           removeHandlers(
             removeAllCI(
               removeAllCI(
                 removeAllCI(
                   removeAngle(trim(input.v)),
                   <<"j","a","v","a","s","c","r","i","p","t",":">>),
                 <<"d","a","t","a",":">>),
               <<"v","b","s","c","r","i","p","t",":">>)),
           SANITIZE_MAX)

(***************************************************************************)
(* lib/rateLimit: the fixed-window limiter.                                *)
(***************************************************************************)
windowMs == 900000
maxRequests == 5

\* forwarded.split(',')[0]
firstOfList(s) ==
    LET commas == {i \in 1..Len(s) : s[i] = ","}
    IN  IF commas = {} THEN s
        ELSE SubSeq(s, 1, (CHOOSE i \in commas : \A j \in commas : i <= j) - 1)

\* x-real-ip read before x-forwarded-for
getClientIPRealFirst(headers) ==
    IF truthy(headers.realIP) THEN headers.realIP.v
    ELSE IF truthy(headers.forwarded) THEN trim(firstOfList(headers.forwarded.v))
    ELSE IF truthy(headers.cfConnectingIP) THEN headers.cfConnectingIP.v
    ELSE <<"u","n","k","n","o","w","n">>

\* the headers of a request: x-forwarded-for, x-real-ip, cf-connecting-ip
getClientIP(headers) ==
    IF truthy(headers.forwarded) THEN trim(firstOfList(headers.forwarded.v))
    ELSE IF truthy(headers.realIP) THEN headers.realIP.v
    ELSE IF truthy(headers.cfConnectingIP) THEN headers.cfConnectingIP.v
    ELSE <<"u","n","k","n","o","w","n">>

\* Map.set
mapSet(store, key, val) ==
    [k \in DOMAIN store \cup {key} |-> IF k = key THEN val ELSE store[k]]

\* a window that ends at its reset time instead of after it
expiredAtReset(entry, t) == entry.resetTime <= t

\* whether the window of an entry has expired at time t
expired(entry, t) == entry.resetTime < t

\* an entry taken for used up after its 6th request
exhaustedAfter(entry) == entry.count > maxRequests

\* whether an entry has used up its window
exhausted(entry) == entry.count >= maxRequests

\* checkRateLimit: the result, and the store it leaves
checkRateLimit(store, clientIP, t) ==
    IF clientIP \notin DOMAIN store \/ expired(store[clientIP], t)
    THEN [allowed |-> TRUE, remaining |-> maxRequests - 1,
          resetTime |-> t + windowMs,
          store |-> mapSet(store, clientIP, [count |-> 1, resetTime |-> t + windowMs])]
    ELSE IF exhausted(store[clientIP])
    THEN [allowed |-> FALSE, remaining |-> 0,
          resetTime |-> store[clientIP].resetTime, store |-> store]
    ELSE [allowed |-> TRUE,
          remaining |-> maxRequests - (store[clientIP].count + 1),
          resetTime |-> store[clientIP].resetTime,
          store |-> mapSet(store, clientIP,
                           [count |-> store[clientIP].count + 1,
                            resetTime |-> store[clientIP].resetTime])]

\* a sweep that also deletes the entries whose window ends now
sweepAtReset(store, t) ==
    [k \in {x \in DOMAIN store : store[x].resetTime > t} |-> store[k]]

\* the sweep of cleanupRateLimitStore and of the denial branch of rateLimitMiddleware
sweep(store, t) ==
    [k \in {x \in DOMAIN store : ~expired(store[x], t)} |-> store[k]]

\* Math.ceil(ms / 1000), for any sign of ms
ceilSeconds(ms) ==
    IF ms >= 0 THEN (ms + 999) \div 1000 ELSE -((-ms) \div 1000)

(***************************************************************************)
(* Inputs of the model.                                                    *)
(***************************************************************************)
S_IP1 == <<":", ":", "1">>
S_IP2 == <<":", ":", "2">>

\* the header sets of the requests: none of the three headers; a forwarded
\* chain "::1, ::2"; x-real-ip alone; cf-connecting-ip alone; all three; an
\* empty x-forwarded-for; an empty x-real-ip
HeaderSets ==
    { [forwarded |-> Null, realIP |-> Null, cfConnectingIP |-> Null],
      [forwarded |-> Str(S_IP1 \o <<",", " ">> \o S_IP2), realIP |-> Null,
       cfConnectingIP |-> Null],
      [forwarded |-> Null, realIP |-> Str(S_IP2), cfConnectingIP |-> Null],
      [forwarded |-> Null, realIP |-> Null, cfConnectingIP |-> Str(S_IP1)],
      [forwarded |-> Str(S_IP1), realIP |-> Str(S_IP2), cfConnectingIP |-> Str(S_IP2)],
      [forwarded |-> Str(<<>>), realIP |-> Str(S_IP2), cfConnectingIP |-> Null],
      [forwarded |-> Null, realIP |-> Str(<<>>), cfConnectingIP |-> Str(S_IP1)] }

\* the keys the limiter driver uses
LimiterKeys == {S_IP1, S_IP2}

\* the steps the clock makes between two events
LimiterDeltas == {1, windowMs}

(***************************************************************************)
(* api/signup/route.ts: the requests, the environment and the provider.    *)
(***************************************************************************)
S_NewUser == <<"n","e","w","@","u","s","e","r",".","c","o","m">>
S_Test == <<"t","e","s","t","@","e","x","a","m","p","l","e",".","c","o","m">>
S_OneA == <<"o","n","e","=","a","@","u","s","e","r",".","c","o","m">>
S_BadEmail == <<"b","a","d","-","e","m","a","i","l">>
S_MIT == <<"M","I","T">>
S_AlreadyExists == <<"a","l","r","e","a","d","y"," ","e","x","i","s","t","s">>
S_AlreadySubscribed ==
    <<"a","l","r","e","a","d","y"," ","s","u","b","s","c","r","i","b","e","d">>
S_Invalid == <<"i","n","v","a","l","i","d">>
S_123 == <<"1","2","3">>
S_456 == <<"4","5","6">>
S_Unknown == <<"u","n","k","n","o","w","n">>
S_TODO == <<"T","O","D","O","_">>
S_Your == <<"y","o","u","r","_">>
S_PleaseReplace == <<"p","l","e","a","s","e","_","r","e","p","l","a","c","e">>

\* a body that JSON.parse rejects
BadJson == [t |-> "bad"]
\* a JSON object of a request: the fields the handler reads
Body(email, school) == [t |-> "obj", email |-> email, school |-> school]

\* the request bodies, by name
Bodies ==
    [ malformed   |-> BadJson,
      null        |-> Null,
      newUser     |-> Body(Str(S_NewUser), Undefined),
      withSchool  |-> Body(Str(S_NewUser), Str(S_MIT)),
      badEmail    |-> Body(Str(S_BadEmail), Undefined),
      noEmail     |-> Body(Undefined, Str(S_MIT)),
      emptyEmail  |-> Body(Str(<<>>), Undefined),
      numEmail    |-> Body(Num(42), Undefined),
      longSchool  |-> Body(Str(S_Test), Str(Rep("x", 101))),
      handlerEmail |-> Body(Str(S_OneA), Undefined) ]

\* the values request.headers.get('content-type') returns, by name
ContentTypes ==
    [ absent |-> Null,
      text   |-> Str(<<"t","e","x","t","/","p","l","a","i","n">>),
      json   |-> Str(<<"a","p","p","l","i","c","a","t","i","o","n","/","j","s","o","n">>) ]

\* process.env, by name
Envs ==
    [ valid       |-> [apiKey |-> Str(Rep("k", 120)), groupId |-> Str(S_123)],
      noKey       |-> [apiKey |-> Undefined, groupId |-> Str(S_123)],
      placeholder |-> [apiKey |-> Str(S_Your \o Rep("k", 120)), groupId |-> Str(S_123)],
      shortKey    |-> [apiKey |-> Str(Rep("k", 99)), groupId |-> Str(S_123)],
      badGroup    |-> [apiKey |-> Str(Rep("k", 120)), groupId |-> Str(<<"g","1">>)],
      longKey     |-> [apiKey |-> Str(Rep("k", 2001)), groupId |-> Str(S_123)],
      todoKey     |-> [apiKey |-> Str(S_TODO \o Rep("k", 120)), groupId |-> Str(S_123)],
      noGroup     |-> [apiKey |-> Str(Rep("k", 120)), groupId |-> Undefined],
      emptyGroup  |-> [apiKey |-> Str(Rep("k", 120)), groupId |-> Str(<<>>)],
      yourGroup   |-> [apiKey |-> Str(Rep("k", 120)), groupId |-> Str(S_Your \o S_123)] ]

\* a body of a provider reply: an object with the fields the handler reads
ErrorBody(error) == [t |-> "obj", error |-> error, data |-> Undefined, id |-> Undefined]
ErrorObj(message) == [t |-> "obj", message |-> message]
DataBody(data, id) == [t |-> "obj", error |-> Undefined, data |-> data, id |-> id]
DataObj(id) == [t |-> "obj", id |-> id]
Http(status, body) == [kind |-> "http", status |-> status, body |-> body]

\* what the fetch of the provider settles with, by name: a reply, a network
\* failure, or the abort of AbortSignal.timeout, whose reason the platform
\* names TimeoutError (the DOM standard) or AbortError (older runtimes)
Replies ==
    [ created      |-> Http(201, DataBody(DataObj(Str(S_123)), Undefined)),
      okFlat       |-> Http(200, DataBody(Undefined, Str(S_123))),
      okBoth       |-> Http(200, DataBody(DataObj(Str(S_123)), Str(S_456))),
      okNeither    |-> Http(200, DataBody(Undefined, Undefined)),
      okEmptyId    |-> Http(200, DataBody(DataObj(Str(<<>>)), Str(S_456))),
      okNoBody     |-> Http(204, BadJson),
      tooMany      |-> Http(429, BadJson),
      duplicate    |-> Http(400, ErrorBody(ErrorObj(Str(S_AlreadyExists)))),
      subscribed   |-> Http(400, ErrorBody(ErrorObj(Str(S_AlreadySubscribed)))),
      invalid      |-> Http(400, ErrorBody(ErrorObj(Str(S_Invalid)))),
      badRequest   |-> Http(400, ErrorBody(Undefined)),
      badHtml      |-> Http(400, BadJson),
      unauthorized |-> Http(401, ErrorBody(ErrorObj(Str(S_AlreadyExists)))),
      serverError  |-> Http(500, BadJson),
      netDown      |-> [kind |-> "reject", name |-> "TypeError"],
      timeout      |-> [kind |-> "reject", name |-> "TimeoutError"],
      timeoutAbort |-> [kind |-> "reject", name |-> "AbortError"] ]

TIMEOUT_MS == 10000

\* an API key of any length from 100 characters on taken for well-formed
validateEnvironmentVariablesNoMax(env) ==
    /\ truthy(env.apiKey)
    /\ truthy(env.groupId)
    /\ ~startsWith(env.apiKey.v, S_TODO)
    /\ ~startsWith(env.groupId.v, S_TODO)
    /\ ~includes(env.apiKey.v, S_Your)
    /\ ~includes(env.groupId.v, S_Your)
    /\ ~includes(env.apiKey.v, S_PleaseReplace)
    /\ Len(env.apiKey.v) >= 100
    /\ \A i \in 1..Len(env.groupId.v) : env.groupId.v[i] \in Digit

\* whether validateEnvironmentVariables returns (it throws MISSING_CONFIG otherwise)
validateEnvironmentVariables(env) ==
    /\ truthy(env.apiKey)
    /\ truthy(env.groupId)
    /\ ~startsWith(env.apiKey.v, S_TODO)
    /\ ~startsWith(env.groupId.v, S_TODO)
    /\ ~includes(env.apiKey.v, S_Your)
    /\ ~includes(env.groupId.v, S_Your)
    /\ ~includes(env.apiKey.v, S_PleaseReplace)
    /\ Len(env.apiKey.v) >= 100
    /\ Len(env.apiKey.v) <= 2000
    /\ \A i \in 1..Len(env.groupId.v) : env.groupId.v[i] \in Digit

\* NextResponse.json(...) and the response of the denial branch: status, the
\* error and subscriber_id of the body, and the headers set on it
Response(status, error) ==
    [status |-> status, error |-> error, message |-> "", details |-> "",
     success |-> FALSE, subscriber_id |-> <<>>,
     rateLimitHeaders |-> FALSE, remaining |-> 0, reset |-> 0,
     hasRetryAfter |-> FALSE, retryAfter |-> 0]

\* a response with the message of its body set
Said(res, message) == [res EXCEPT !.message = message]

\* the message of a thrown error relayed as the error of the response
catchResponseRelayed(message) ==
    Said(Response(500, message), "Something went wrong. Please try again later.")

\* the catch block of POST: the response for a thrown error, by its message
catchResponse(message) ==
    CASE message = "MISSING_CONFIG" ->
            [Response(500, "MISSING_CONFIG") EXCEPT
                !.message = "Service temporarily unavailable. Please try again later.",
                !.details = "MailerLite API configuration is missing. Check server logs for setup instructions."]
      [] message = "DUPLICATE_EMAIL" ->
            Said(Response(400, "DUPLICATE_EMAIL"), "This email is already on our waitlist!")
      [] message = "RATE_LIMITED" ->
            Said(Response(429, "RATE_LIMITED"),
                 "Too many requests. Please wait a moment and try again.")
      [] message = "NETWORK_ERROR" ->
            Said(Response(500, "NETWORK_ERROR"), "Connection timeout. Please try again.")
      [] OTHER ->
            Said(Response(500, "API_ERROR"), "Something went wrong. Please try again later.")

\* rateLimitMiddleware on a denial: the 429 with its headers
deniedResponse(rateLimit, t) ==
    [Response(429, "RATE_LIMITED") EXCEPT
        !.message = "Too many signup attempts. Please wait 15 minutes before trying again.",
        !.rateLimitHeaders = TRUE,
        !.remaining = rateLimit.remaining,
        !.reset = rateLimit.resetTime,
        !.hasRetryAfter = TRUE,
        !.retryAfter = ceilSeconds(rateLimit.resetTime - t)]

\* the configuration read before the fields are validated
validateBodyConfigFirst(body, env) ==
    LET email == sanitizeInput(body.email)
        school == IF truthy(body.school) THEN Str(sanitizeInput(body.school))
                  ELSE Undefined
        stop == IF body.t # "obj" THEN "THROWN"
                ELSE IF ~validateEnvironmentVariables(env) THEN "MISSING_CONFIG"
                ELSE IF ~truthy(body.email) THEN "INVALID_EMAIL"
                ELSE IF ~validateEmailFormat(email) THEN "INVALID_EMAIL"
                ELSE IF truthy(school) /\ Len(school.v) > 100 THEN "INVALID_SCHOOL"
                ELSE ""
        message == IF body.t # "obj" THEN ""
                   ELSE IF ~truthy(body.email) THEN "Email is required"
                   ELSE IF stop = "INVALID_EMAIL" THEN "Please enter a valid email address"
                   ELSE IF stop = "INVALID_SCHOOL"
                   THEN "School name is too long (max 100 characters)"
                   ELSE ""
    IN  IF body.t # "obj"
        THEN [stop |-> stop, message |-> message, email |-> <<>>, school |-> Undefined]
        ELSE [stop |-> stop, message |-> message, email |-> email, school |-> school]

\* the format of the email not checked
validateBodyNoFormat(body, env) ==
    LET email == sanitizeInput(body.email)
        school == IF truthy(body.school) THEN Str(sanitizeInput(body.school))
                  ELSE Undefined
        stop == IF body.t # "obj" THEN "THROWN"
                ELSE IF ~truthy(body.email) THEN "INVALID_EMAIL"
                ELSE IF truthy(school) /\ Len(school.v) > 100 THEN "INVALID_SCHOOL"
                ELSE IF ~validateEnvironmentVariables(env) THEN "MISSING_CONFIG"
                ELSE ""
        message == IF body.t # "obj" THEN ""
                   ELSE IF ~truthy(body.email) THEN "Email is required"
                   ELSE IF stop = "INVALID_SCHOOL"
                   THEN "School name is too long (max 100 characters)"
                   ELSE ""
    IN  IF body.t # "obj"
        THEN [stop |-> stop, message |-> message, email |-> <<>>, school |-> Undefined]
        ELSE [stop |-> stop, message |-> message, email |-> email, school |-> school]

\* POST from the parsed body to the provider call: the sanitised fields and
\* the first check that stops the request ("" when none does); a body that
\* cannot be parsed, or has no properties to read, throws into the catch block
validateBody(body, env) ==
    LET email == sanitizeInput(body.email)
        school == IF truthy(body.school) THEN Str(sanitizeInput(body.school))
                  ELSE Undefined
        stop == IF body.t # "obj" THEN "THROWN"
                ELSE IF ~truthy(body.email) THEN "INVALID_EMAIL"
                ELSE IF ~validateEmailFormat(email) THEN "INVALID_EMAIL"
                ELSE IF truthy(school) /\ Len(school.v) > 100 THEN "INVALID_SCHOOL"
                ELSE IF ~validateEnvironmentVariables(env) THEN "MISSING_CONFIG"
                ELSE ""
        message == IF body.t # "obj" THEN ""
                   ELSE IF ~truthy(body.email) THEN "Email is required"
                   ELSE IF stop = "INVALID_EMAIL" THEN "Please enter a valid email address"
                   ELSE IF stop = "INVALID_SCHOOL"
                   THEN "School name is too long (max 100 characters)"
                   ELSE ""
    IN  IF body.t # "obj"
        THEN [stop |-> stop, message |-> message, email |-> <<>>, school |-> Undefined]
        ELSE [stop |-> stop, message |-> message, email |-> email, school |-> school]

\* validateBody on the inputs of the model
validated ==
    [b \in DOMAIN Bodies |-> [e \in DOMAIN Envs |-> validateBody(Bodies[b], Envs[e])]]

\* every 400 of the provider taken for a duplicate
providerErrorAny400(reply) ==
    IF reply.kind = "reject"
    THEN IF reply.name = "AbortError" THEN "NETWORK_ERROR" ELSE "THROWN"
    ELSE IF reply.status = 429 THEN "RATE_LIMITED"
    ELSE IF reply.status = 400 THEN "DUPLICATE_EMAIL"
    ELSE IF ~(reply.status >= 200 /\ reply.status <= 299) THEN "API_ERROR"
    ELSE IF reply.body.t # "obj" THEN "THROWN"
    ELSE ""

\* the message of the error addSubscriberToMailerLite throws for a settled
\* fetch, "" when it returns the parsed body
providerError(reply) ==
    IF reply.kind = "reject"
    THEN IF reply.name = "AbortError" THEN "NETWORK_ERROR" ELSE "THROWN"
    ELSE IF reply.status = 429 THEN "RATE_LIMITED"
    ELSE IF reply.status = 400
    THEN IF reply.body.t # "obj" THEN "THROWN"
         ELSE IF /\ truthy(reply.body.error)
                 /\ truthy(reply.body.error.message)
                 /\ \/ includes(reply.body.error.message.v, S_AlreadyExists)
                    \/ includes(reply.body.error.message.v, S_AlreadySubscribed)
              THEN "DUPLICATE_EMAIL"
              ELSE "API_ERROR"
    ELSE IF ~(reply.status >= 200 /\ reply.status <= 299) THEN "API_ERROR"
    ELSE IF reply.body.t # "obj" THEN "THROWN"
    ELSE ""

\* the flat id read before the nested one
subscriberIdFlatFirst(body) ==
    IF truthy(body.id) THEN body.id.v
    ELSE IF truthy(body.data) /\ truthy(body.data.id) THEN body.data.id.v
    ELSE S_Unknown

\* response.data?.id || response.id || "unknown"
subscriberId(body) ==
    IF truthy(body.data) /\ truthy(body.data.id) THEN body.data.id.v
    ELSE IF truthy(body.id) THEN body.id.v
    ELSE S_Unknown

\* the request body addSubscriberToMailerLite sends: the school is a field of
\* it when it is a non-empty string
requestBody(email, school, env) ==
    [email |-> email,
     school |-> IF truthy(school) THEN school ELSE Undefined,
     groups |-> env.groupId.v]

\* the steps the clock makes between two events of the handler
PostDeltas == {TIMEOUT_MS}

\* the header sets of the requests POST is driven with
PostHeaders == {h \in HeaderSets : h.realIP = Null /\ h.cfConnectingIP = Null}

(***************************************************************************)
(* app/page.tsx and scripts/signup.js: the form, and what is typed in it.  *)
(***************************************************************************)
\* the texts typed in the email field, by name
EmailTexts ==
    [ empty  |-> <<>>,
      padded |-> <<" ">> \o S_NewUser \o <<" ">>,
      bad    |-> S_BadEmail ]

\* the texts typed in the school field, by name
SchoolTexts ==
    [ none |-> <<>>,
      mit  |-> S_MIT,
      long |-> Rep("x", 101) ]

\* validateEmailForUI: the message, "" for null
validateEmailForUI(email) ==
    IF trim(email) = <<>> THEN "Email is required"
    ELSE IF ~validateEmailFormat(email) THEN "Please enter a valid email address"
    ELSE IF Len(email) > EMAIL_MAX THEN "Email address is too long"
    ELSE ""

\* validateSchoolForUI: the message, "" for null
validateSchoolForUI(school) ==
    IF school = <<>> THEN ""
    ELSE IF Len(school) > 100 THEN "School name is too long (max 100 characters)"
    ELSE ""

\* validateForm of page.tsx: the errors object, "" for a key it does not hold
validateForm(formData) ==
    [email |-> validateEmailForUI(formData.email),
     school |-> validateSchoolForUI(IF truthy(formData.school) THEN formData.school.v
                                    ELSE <<>>)]

\* Object.keys(errors).length > 0
hasErrors(errors) == errors.email # "" \/ errors.school # ""

\* the formData handleSubmit of page.tsx builds, and its validation
formDataOf(email, school) ==
    [email |-> trim(email),
     school |-> IF trim(school) # <<>> THEN Str(trim(school)) ELSE Undefined]
uiCheck ==
    [e \in DOMAIN EmailTexts |-> [s \in DOMAIN SchoolTexts |->
        LET formData == formDataOf(EmailTexts[e], SchoolTexts[s])
        IN  [formData |-> formData, errors |-> validateForm(formData)]]]

\* the fields handleSubmit of signup.js reads, and whether it goes on to post
scriptDataOf(email, school) ==
    [email |-> sanitizeInput(Str(email)), school |-> sanitizeInput(Str(school))]
NoScriptError == [text |-> "", field |-> ""]
scriptValidate(data) ==
    IF data.email = <<>> \/ ~validateEmailFormat(data.email)
    THEN [text |-> "Please enter a valid email address", field |-> "email"]
    ELSE IF data.school # <<>> /\ Len(data.school) > 100
    THEN [text |-> "School name is too long (max 100 characters)", field |-> "school"]
    ELSE NoScriptError
scriptCheck ==
    [e \in DOMAIN EmailTexts |-> [s \in DOMAIN SchoolTexts |->
        LET data == scriptDataOf(EmailTexts[e], SchoolTexts[s])
        IN  [data |-> data, error |-> scriptValidate(data)]]]

\* email.split("@")[1], undefined when there is no "@"
emailDomain(email) ==
    LET ats == {i \in 1..Len(email) : email[i] = "@"}
    IN  IF ats = {} THEN Undefined
        ELSE LET a == CHOOSE i \in ats : \A j \in ats : i <= j
                 rest == {i \in ats : i > a}
                 b == IF rest = {} THEN Len(email) + 1
                      ELSE CHOOSE i \in rest : \A j \in rest : i <= j
             IN  Str(SubSeq(email, a + 1, b - 1))

(***************************************************************************)
(* lib/logger.ts as route.ts uses it.  A line is its level and the text     *)
(* that is put into it at run time; error lines go to the console always,   *)
(* warn and info lines when NODE_ENV is development.                        *)
(***************************************************************************)
Line(level, data) == [level |-> level, data |-> data]

S_Stars == <<"*", "*", "*">>

\* the lines validateEnvironmentVariables and getConfig log before they throw
configLog(env) ==
    IF ~truthy(env.apiKey) \/ ~truthy(env.groupId)
    THEN <<Line("error", <<>>)>>
    ELSE IF \/ startsWith(env.apiKey.v, S_TODO) \/ startsWith(env.groupId.v, S_TODO)
            \/ includes(env.apiKey.v, S_Your) \/ includes(env.groupId.v, S_Your)
            \/ includes(env.apiKey.v, S_PleaseReplace)
    THEN <<Line("error", <<>>)>>
    ELSE IF Len(env.apiKey.v) < 100 \/ Len(env.apiKey.v) > 2000
    THEN <<Line("error", substring0(env.apiKey.v, 10) \o S_Stars)>>
    ELSE IF \E i \in 1..Len(env.groupId.v) : env.groupId.v[i] \notin Digit
    THEN <<Line("error", env.groupId.v)>>
    ELSE <<>>

\* configLog on the environments of the model
configLogs == [e \in DOMAIN Envs |-> configLog(Envs[e])]

\* the lines addSubscriberToMailerLite and POST log once the fetch has settled
\* with reply, for the email sent
providerLog(reply, email) ==
    LET err == providerError(reply)
    IN  IF err = ""
        THEN <<Line("info", IF truthy(emailDomain(email)) THEN emailDomain(email).v
                            ELSE <<>>)>>
        ELSE IF err = "DUPLICATE_EMAIL"
        THEN <<Line("info", substring0(email, 5) \o S_Stars), Line("error", <<>>)>>
        ELSE IF err = "RATE_LIMITED"
        THEN <<Line("warn", <<>>), Line("error", <<>>)>>
        ELSE <<Line("error", <<>>)>>

\* the lines logged while a request is handled, from the stage it got to
logged(stage, b, e, r) ==
    CASE stage = "parse" -> <<Line("error", <<>>)>>
      [] stage = "config" -> configLogs[e] \o <<Line("error", <<>>), Line("error", <<>>)>>
      [] stage = "provider" -> providerLog(Replies[r], validated[b][e].email)
      [] OTHER -> <<>>

(***************************************************************************)
(* State after module load: an empty store, no request in flight; the page *)
(* rendered with an empty form, signup.js not yet run.                     *)
(***************************************************************************)
NoSlot == [pc |-> "idle"]
NoResp == [res |-> Response(0, ""), stage |-> "", calls |-> 0, n |-> 0, log |-> <<>>,
           contentType |-> "", body |-> "", env |-> "", reply |-> ""]

Init ==
    /\ now = 0
    /\ ticks = 0
    /\ rateLimitStore = <<>>
    /\ hist = <<>>
    /\ slot = [i \in 1..MaxInflight |-> NoSlot]
    /\ resp = NoResp
    /\ arrivals = <<>>
    /\ gate = [n |-> 0, allowed |-> TRUE, key |-> <<>>]
    /\ nposts = 0
    /\ signupForm = [email |-> "empty", school |-> "none", isSubmitted |-> FALSE,
                     isLoading |-> FALSE, error |-> ""]
    /\ validationErrors = [email |-> "", school |-> ""]
    /\ page = [scriptLoaded |-> FALSE, buttonDisabled |-> FALSE,
               scriptError |-> NoScriptError,
               scriptSuccess |-> FALSE, timer |-> FALSE, location |-> "/"]
    /\ flights = <<>>
    /\ events = {}
    /\ lastSubmit = [n |-> 0, posts |-> 0, rejected |-> FALSE]
    /\ given = <<>>
    /\ results = <<>>

\* time passes
Tick(d) ==
    /\ ticks < MaxTicks
    /\ now' = now + d
    /\ ticks' = ticks + 1
    /\ UNCHANGED <<rateLimitStore, hist, slot, resp, arrivals, gate, nposts>>
    /\ UNCHANGED <<clientVars, pureVars>>

\* the interval timer of rateLimit.ts:161-163 fires
cleanupRateLimitStore ==
    /\ rateLimitStore' = sweep(rateLimitStore, now)
    /\ UNCHANGED <<now, ticks, hist, slot, resp, arrivals, gate, nposts>>
    /\ UNCHANGED <<clientVars, pureVars>>

(***************************************************************************)
(* The limiter on its own: checkRateLimit called for a key at the current  *)
(* time, each call and its result recorded in hist.                        *)
(***************************************************************************)
LimiterCall(ip) ==
    /\ Len(hist) < MaxCalls
    /\ LET r == checkRateLimit(rateLimitStore, ip, now)
       IN  /\ rateLimitStore' = r.store
           /\ hist' = Append(hist, [ip |-> ip, t |-> now, allowed |-> r.allowed,
                                    remaining |-> r.remaining,
                                    resetTime |-> r.resetTime])
    /\ UNCHANGED <<now, ticks, slot, resp, arrivals, gate, nposts>>
    /\ UNCHANGED <<clientVars, pureVars>>

NextLimiter ==
    \/ \E ip \in LimiterKeys : LimiterCall(ip)
    \/ \E d \in LimiterDeltas : Tick(d)
    \/ cleanupRateLimitStore

SpecLimiter == Init /\ [][NextLimiter]_vars

(***************************************************************************)
(* POST /api/signup.  An invocation runs from its start to the await of    *)
(* request.json(), from there to the await of the provider's fetch, and    *)
(* from there to its return; other invocations, the clock and the timer    *)
(* run in between.                                                         *)
(***************************************************************************)
\* the window of POST arrivals of a key, after one more arrives at time t
arrive(arr, ip, t) ==
    IF ip \notin DOMAIN arr \/ t > arr[ip].start + windowMs
    THEN [n |-> 1, start |-> t]
    ELSE [n |-> Min(arr[ip].n + 1, maxRequests + 1), start |-> arr[ip].start]

\* the POSTs of a key that passed the rate-limit gate in the window the limiter
\* keeps for the key, the window named by its reset time, after one more POST
\* got the result rateLimit
passing(arr, ip, rateLimit) ==
    IF ~rateLimit.allowed
    THEN IF ip \in DOMAIN arr
         THEN [passes |-> arr[ip].passes, reset |-> arr[ip].reset]
         ELSE [passes |-> 0, reset |-> 0]
    ELSE IF ip \in DOMAIN arr /\ arr[ip].reset = rateLimit.resetTime
         THEN [passes |-> arr[ip].passes + 1, reset |-> arr[ip].reset]
         ELSE [passes |-> 1, reset |-> rateLimit.resetTime]

\* contentType && contentType.includes('application/json')
isJson(contentType) ==
    truthy(contentType) /\ includes(contentType.v, ContentTypes.json.v)

\* the record of a returned response: the response, how far the request got,
\* how many provider calls it made, the number of responses returned so far,
\* the lines logged for it, and the inputs it was given
Returned(res, stage, calls, ct, b, e, r) ==
    [res |-> res, stage |-> stage, calls |-> calls, n |-> resp.n + 1,
     log |-> logged(stage, b, e, r),
     contentType |-> ct, body |-> b, env |-> e, reply |-> r]

\* the content type checked before the rate limit, so that a request of another
\* content type takes nothing from the quota
POST_beginContentTypeFirst(i, headers, ct) ==
    /\ slot[i].pc = "idle"
    /\ \A j \in 1..(i - 1) : slot[j].pc # "idle"
    /\ nposts' = nposts + 1
    /\ LET clientIP == getClientIP(headers)
           rateLimit == IF isJson(ContentTypes[ct])
                        THEN checkRateLimit(rateLimitStore, clientIP, now)
                        ELSE [allowed |-> TRUE, remaining |-> 0, resetTime |-> 0,
                              store |-> rateLimitStore]
           a == arrive(arrivals, clientIP, now)
           p == passing(arrivals, clientIP, rateLimit)
       IN  /\ arrivals' = mapSet(arrivals, clientIP,
                                 [n |-> a.n, start |-> a.start,
                                  passes |-> p.passes, reset |-> p.reset])
           /\ gate' = [n |-> a.n, allowed |-> rateLimit.allowed, key |-> clientIP]
           /\ IF ~isJson(ContentTypes[ct])
              THEN /\ rateLimitStore' = rateLimitStore
                   /\ resp' = Returned(
                                 Said(Response(400, "INVALID_CONTENT_TYPE"),
                                      "Content-Type must be application/json"),
                                 "contentType", 0, ct, "", "", "")
                   /\ slot' = slot
              ELSE IF ~rateLimit.allowed
              THEN /\ rateLimitStore' = sweep(rateLimit.store, now)
                   /\ resp' = Returned(deniedResponse(rateLimit, now), "rateLimit", 0,
                                       ct, "", "", "")
                   /\ slot' = slot
              ELSE /\ rateLimitStore' = rateLimit.store
                   /\ resp' = resp
                   /\ slot' = [slot EXCEPT ![i] =
                                 [pc |-> "body", ip |-> clientIP, contentType |-> ct]]
    /\ UNCHANGED <<now, ticks, hist>>
    /\ UNCHANGED <<clientVars, pureVars>>

\* lines 190-207: the rate-limit gate and the content-type gate
POST_begin(i, headers, ct) ==
    /\ slot[i].pc = "idle"
    /\ \A j \in 1..(i - 1) : slot[j].pc # "idle"
    /\ nposts' = nposts + 1
    /\ LET clientIP == getClientIP(headers)
           rateLimit == checkRateLimit(rateLimitStore, clientIP, now)
           a == arrive(arrivals, clientIP, now)
           p == passing(arrivals, clientIP, rateLimit)
       IN  /\ arrivals' = mapSet(arrivals, clientIP,
                                 [n |-> a.n, start |-> a.start,
                                  passes |-> p.passes, reset |-> p.reset])
           /\ gate' = [n |-> a.n, allowed |-> rateLimit.allowed, key |-> clientIP]
           /\ IF ~rateLimit.allowed
              THEN /\ rateLimitStore' = sweep(rateLimit.store, now)
                   /\ resp' = Returned(deniedResponse(rateLimit, now), "rateLimit", 0,
                                       ct, "", "", "")
                   /\ slot' = slot
              ELSE /\ rateLimitStore' = rateLimit.store
                   /\ IF ~isJson(ContentTypes[ct])
                      THEN /\ resp' = Returned(
                                         Said(Response(400, "INVALID_CONTENT_TYPE"),
                                              "Content-Type must be application/json"),
                                         "contentType", 0, ct, "", "", "")
                           /\ slot' = slot
                      ELSE /\ resp' = resp
                           /\ slot' = [slot EXCEPT ![i] =
                                         [pc |-> "body", ip |-> clientIP, contentType |-> ct]]
    /\ UNCHANGED <<now, ticks, hist>>
    /\ UNCHANGED <<clientVars, pureVars>>

\* the stage at which a request stopped, from the check that stopped it
stageOf(stop) ==
    CASE stop = "THROWN" -> "parse"
      [] stop = "MISSING_CONFIG" -> "config"
      [] OTHER -> "validation"

\* lines 207-239 and 128-149: the body is parsed, validated and sanitised, the
\* environment is read, and the provider call is made
POST_body(i, b, e) ==
    /\ slot[i].pc = "body"
    /\ LET v == validated[b][e]
       IN  IF v.stop = ""
           THEN /\ slot' = [slot EXCEPT ![i] =
                              [pc |-> "fetch", ip |-> slot[i].ip,
                               contentType |-> slot[i].contentType,
                               body |-> b, env |-> e, since |-> now,
                               payload |-> requestBody(v.email, v.school, Envs[e])]]
                /\ resp' = resp
           ELSE /\ slot' = [slot EXCEPT ![i] = NoSlot]
                /\ resp' = Returned(
                              IF v.stop \in {"INVALID_EMAIL", "INVALID_SCHOOL"}
                              THEN Said(Response(400, v.stop), v.message)
                              ELSE catchResponse(v.stop),
                              stageOf(v.stop), 0, slot[i].contentType, b, e, "")
    /\ UNCHANGED <<now, ticks, rateLimitStore, hist, arrivals, gate, nposts>>
    /\ UNCHANGED <<clientVars, pureVars>>

\* addRateLimitHeaders: checkRateLimit once more, for the header values
addRateLimitHeaders(res, store, clientIP, t) ==
    LET rateLimit == checkRateLimit(store, clientIP, t)
    IN  [res |-> [res EXCEPT !.rateLimitHeaders = TRUE,
                             !.remaining = rateLimit.remaining,
                             !.reset = rateLimit.resetTime],
         store |-> rateLimit.store]

\* lines 150-185 and 241-309: the fetch settles; the abort of the 10 s signal
\* is the one way it settles once that time has passed
POST_reply(i, r) ==
    /\ slot[i].pc = "fetch"
    /\ (Replies[r].kind = "reject" /\ Replies[r].name \in {"TimeoutError", "AbortError"})
          <=> now >= slot[i].since + TIMEOUT_MS
    /\ LET err == providerError(Replies[r])
           ok == addRateLimitHeaders(
                    [Response(200, "") EXCEPT
                        !.success = TRUE,
                        !.message = "Successfully added to waitlist",
                        !.subscriber_id = subscriberId(Replies[r].body)],
                    rateLimitStore, slot[i].ip, now)
       IN  IF err # ""
           THEN /\ resp' = Returned(catchResponse(err), "provider", 1,
                                    slot[i].contentType, slot[i].body, slot[i].env, r)
                /\ rateLimitStore' = rateLimitStore
           ELSE /\ resp' = Returned(ok.res, "provider", 1,
                                    slot[i].contentType, slot[i].body, slot[i].env, r)
                /\ rateLimitStore' = ok.store
    /\ slot' = [slot EXCEPT ![i] = NoSlot]
    /\ UNCHANGED <<now, ticks, hist, arrivals, gate, nposts>>
    /\ UNCHANGED <<clientVars, pureVars>>

\* the handler on every kind of request, environment and provider reply
Next ==
    \/ \E i \in 1..MaxInflight, h \in PostHeaders, ct \in DOMAIN ContentTypes :
          nposts < MaxRequests /\ POST_begin(i, h, ct)
    \/ \E i \in 1..MaxInflight, b \in DOMAIN Bodies, e \in DOMAIN Envs : POST_body(i, b, e)
    \/ \E i \in 1..MaxInflight, r \in DOMAIN Replies : POST_reply(i, r)
    \/ \E d \in PostDeltas : Tick(d)
    \/ cleanupRateLimitStore

Spec == Init /\ [][Next]_vars

\* the inputs of the runs to the end: a request that stops at each gate and one
\* that reaches the provider, on every way the provider's fetch settles
LiveHeaders == {h \in HeaderSets : getClientIP(h) = S_Unknown}
LiveContentTypes == {"json", "text"}
LiveBodies == {"malformed", "null", "badEmail", "newUser", "withSchool"}
LiveEnvs == {"valid", "noKey"}

\* the handler on these requests
NextLive ==
    \/ \E i \in 1..MaxInflight, h \in LiveHeaders, ct \in LiveContentTypes :
          nposts < MaxRequests /\ POST_begin(i, h, ct)
    \/ \E i \in 1..MaxInflight, b \in LiveBodies, e \in LiveEnvs : POST_body(i, b, e)
    \/ \E i \in 1..MaxInflight, r \in DOMAIN Replies : POST_reply(i, r)
    \/ \E d \in PostDeltas : Tick(d)
    \/ cleanupRateLimitStore

\* the handler with the event loop resuming every suspended invocation: the
\* body of the request arrives, and the fetch of the provider settles, by the
\* abort of its 10 s signal at the latest
SpecLive ==
    /\ Init
    /\ [][NextLive]_vars
    /\ WF_vars(\E i \in 1..MaxInflight, b \in LiveBodies, e \in LiveEnvs :
                  POST_body(i, b, e))
    /\ WF_vars(\E i \in 1..MaxInflight, r \in DOMAIN Replies : POST_reply(i, r))

\* the inputs of the long runs: requests that stop at each gate or reach the
\* provider, which subscribes or fails, all from the one client address ::1
QuotaHeaders == {h \in HeaderSets : getClientIP(h) = S_IP1}
QuotaContentTypes == {"json", "text"}
QuotaBodies == {"newUser", "badEmail"}
QuotaEnvs == {"valid"}
QuotaReplies == {"created", "serverError"}
QuotaDeltas == {1, windowMs}

\* the handler over the requests of a whole window and beyond
NextQuota ==
    \/ \E i \in 1..MaxInflight, h \in QuotaHeaders, ct \in QuotaContentTypes :
          nposts < MaxPosts /\ POST_begin(i, h, ct)
    \/ \E i \in 1..MaxInflight, b \in QuotaBodies, e \in QuotaEnvs : POST_body(i, b, e)
    \/ \E i \in 1..MaxInflight, r \in QuotaReplies : POST_reply(i, r)
    \/ \E d \in QuotaDeltas : Tick(d)
    \/ cleanupRateLimitStore

SpecQuota == Init /\ [][NextQuota]_vars

\* the inputs of the interleaved runs: requests of the one client address ::1
\* that all pass the gates and are suspended at both awaits, and a provider
\* that subscribes or fails
InterleaveContentTypes == {"json"}
InterleaveBodies == {"newUser"}

\* the handler over requests in flight at the same time
NextInterleave ==
    \/ \E i \in 1..MaxInflight, h \in QuotaHeaders, ct \in InterleaveContentTypes :
          nposts < MaxPosts /\ POST_begin(i, h, ct)
    \/ \E i \in 1..MaxInflight, b \in InterleaveBodies, e \in QuotaEnvs :
          POST_body(i, b, e)
    \/ \E i \in 1..MaxInflight, r \in QuotaReplies : POST_reply(i, r)
    \/ \E d \in QuotaDeltas : Tick(d)
    \/ cleanupRateLimitStore

SpecInterleave == Init /\ [][NextInterleave]_vars

\* the inputs of the runs of one request after the other: requests of the one
\* client address ::1 that stop at the content-type gate, at field validation
\* or at the configuration, or reach the provider
SequenceContentTypes == {"json", "text"}
SequenceBodies == {"badEmail", "newUser"}
SequenceEnvs == {"noKey", "valid"}
SequenceReplies == {"created"}

\* the handler over requests that arrive when none is in flight
NextSequence ==
    \/ \E i \in 1..MaxInflight, h \in QuotaHeaders, ct \in SequenceContentTypes :
          /\ nposts < MaxPosts
          /\ \A j \in 1..MaxInflight : slot[j].pc = "idle"
          /\ POST_begin(i, h, ct)
    \/ \E i \in 1..MaxInflight, b \in SequenceBodies, e \in SequenceEnvs :
          POST_body(i, b, e)
    \/ \E i \in 1..MaxInflight, r \in SequenceReplies : POST_reply(i, r)
    \/ \E d \in QuotaDeltas : Tick(d)
    \/ cleanupRateLimitStore

SpecSequence == Init /\ [][NextSequence]_vars

\* the inputs of the runs over the client addresses: every header set, on
\* requests that pass the rate-limit gate and stop at the content-type gate
KeysContentTypes == {"text"}
KeysDeltas == {1, windowMs}

\* the handler over requests of every client address
NextKeys ==
    \/ \E i \in 1..MaxInflight, h \in HeaderSets, ct \in KeysContentTypes :
          nposts < MaxPosts /\ POST_begin(i, h, ct)
    \/ \E d \in KeysDeltas : Tick(d)
    \/ cleanupRateLimitStore

SpecKeys == Init /\ [][NextKeys]_vars

(***************************************************************************)
(* sanitizeInput on its own: a string put together from a few pieces, and  *)
(* the function applied to it and then to its own result.                  *)
(***************************************************************************)
\* the pieces of the strings: parts of the patterns the function removes,
\* white space, an angle bracket, plain letters and a long run of them
SanitizePieces ==
    { <<"d","a">>, <<"t","a",":">>, <<"d","a","t","a",":">>, <<"o","n">>,
      <<"x","=">>, <<" ">>, <<"<">>, <<"b">>, Rep("a", 99) }

\* the concatenations of at most n pieces
RECURSIVE joined(_)
joined(n) ==
    IF n = 0 THEN {<<>>}
    ELSE joined(n - 1) \cup {a \o b : a \in joined(n - 1), b \in SanitizePieces}

InitSanitize ==
    /\ now = 0
    /\ ticks = 0
    /\ rateLimitStore = <<>>
    /\ hist = <<>>
    /\ slot = [i \in 1..MaxInflight |-> NoSlot]
    /\ resp = NoResp
    /\ arrivals = <<>>
    /\ gate = [n |-> 0, allowed |-> TRUE, key |-> <<>>]
    /\ nposts = 0
    /\ signupForm = [email |-> "empty", school |-> "none", isSubmitted |-> FALSE,
                     isLoading |-> FALSE, error |-> ""]
    /\ validationErrors = [email |-> "", school |-> ""]
    /\ page = [scriptLoaded |-> FALSE, buttonDisabled |-> FALSE,
               scriptError |-> NoScriptError,
               scriptSuccess |-> FALSE, timer |-> FALSE, location |-> "/"]
    /\ flights = <<>>
    /\ events = {}
    /\ lastSubmit = [n |-> 0, posts |-> 0, rejected |-> FALSE]
    /\ given \in joined(MaxTokens)
    /\ results = <<>>

\* sanitizeInput applied to the string, or to the result of the last application
sanitize ==
    /\ Len(results) < MaxPasses
    /\ results' = Append(results,
                         sanitizeInput(Str(IF results = <<>> THEN given
                                           ELSE results[Len(results)])))
    /\ UNCHANGED <<serverVars, clientVars, given>>

NextSanitize == sanitize

SpecSanitize == InitSanitize /\ [][NextSanitize]_vars

(***************************************************************************)
(* The client: the form of app/page.tsx with its React handler, and the    *)
(* handler scripts/signup.js adds to the same form once it has loaded.  A  *)
(* submit event runs every listener up to its first await; each fetch      *)
(* settles on its own, in any order.                                       *)
(***************************************************************************)
\* what fetch and response.json() give for a response of POST
Answer(res) ==
    [kind |-> "http", status |-> res.status, ok |-> res.status \in 200..299,
     result |-> [error |-> res.error, message |-> res.message,
                 success |-> res.success, subscriber_id |-> res.subscriber_id]]

\* what a fetch to /api/signup settles with, by name: the responses of POST,
\* and the rejection of a fetch that does not reach the server
Answers ==
    [ success      |-> Answer([Response(200, "") EXCEPT
                                  !.success = TRUE,
                                  !.message = "Successfully added to waitlist",
                                  !.subscriber_id = S_123]),
      duplicate    |-> Answer(catchResponse("DUPLICATE_EMAIL")),
      limited      |-> Answer(deniedResponse([remaining |-> 0, resetTime |-> windowMs], 0)),
      invalidEmail |-> Answer(Said(Response(400, "INVALID_EMAIL"),
                                   "Please enter a valid email address")),
      noConfig     |-> Answer(catchResponse("MISSING_CONFIG")),
      timedOut     |-> Answer(catchResponse("NETWORK_ERROR")),
      apiError     |-> Answer(catchResponse("API_ERROR")),
      unreachable  |-> [kind |-> "reject", message |-> "Failed to fetch"] ]

\* window.splitbee at a call of track: not there, recording, or throwing
Splitbee == {"absent", "ok", "throws"}

\* a signup_event event, and the handler that fired it; of the events the
\* handlers fire (signup_attempt, signup_event, signup_error) these are kept
Event(by, domain, hasSchool, id) ==
    [name |-> "signup_event", by |-> by, email_domain |-> domain,
     has_school |-> hasSchool, subscriber_id |-> id]

\* remove the k-th element of a sequence
dropAt(seq, k) == SubSeq(seq, 1, k - 1) \o SubSeq(seq, k + 1, Len(seq))

\* the disabled prop of the submit button
disabledProp(form) == form.isLoading \/ form.isSubmitted

\* the disabled property of the button after React renders form2 over form:
\* React writes the property when the prop has changed
render(form, form2, disabled) ==
    IF disabledProp(form) # disabledProp(form2) THEN disabledProp(form2) ELSE disabled

\* page.tsx lines 380-391: the message for a response that is not a success
errorMessage(answer, onLine) ==
    LET result == answer.result
    IN  IF answer.status = 400 /\ result.error = "DUPLICATE_EMAIL"
        THEN "This email is already on our waitlist!"
        ELSE IF answer.status = 429
        THEN "Too many requests. Please wait a moment and try again."
        ELSE IF answer.status = 500 /\ result.error = "MISSING_CONFIG"
        THEN "Service temporarily unavailable. Please try again later."
        ELSE IF ~onLine
        THEN "Connection issue. Please check your internet and try again."
        ELSE IF result.error # "" /\ result.message # "" THEN result.message
        ELSE "Something went wrong. Please try again."

\* signup.js lines 213-225: the message for a response that is not ok
scriptErrorMessage(answer) ==
    IF answer.status = 400 /\ answer.result.error = "DUPLICATE_EMAIL"
    THEN "This email is already on our waitlist!"
    ELSE IF answer.status = 400 /\ answer.result.error = "INVALID_EMAIL"
    THEN "Please enter a valid email address"
    ELSE IF answer.status = 429
    THEN "Too many requests. Please wait a moment and try again."
    ELSE IF answer.status = 500 /\ answer.result.error = "MISSING_CONFIG"
    THEN "Service temporarily unavailable. Please try again later."
    ELSE "Something went wrong. Please try again later."

\* signup.js has loaded: initializeForm adds its listener to the form
initializeForm ==
    /\ page.location = "/"
    /\ ~page.scriptLoaded
    /\ page' = [page EXCEPT !.scriptLoaded = TRUE]
    /\ UNCHANGED <<signupForm, validationErrors, flights, events, lastSubmit>>
    /\ UNCHANGED <<serverVars, pureVars>>

\* handleEmailChange, and the input listener of signup.js; the field is
\* disabled while isLoading
handleEmailChange(value) ==
    /\ page.location = "/"
    /\ ~signupForm.isLoading
    /\ signupForm' = [signupForm EXCEPT !.email = value]
    /\ validationErrors' = [validationErrors EXCEPT !.email = ""]
    /\ page' = IF page.scriptLoaded /\ page.scriptError.field = "email"
               THEN [page EXCEPT !.scriptError = NoScriptError] ELSE page
    /\ UNCHANGED <<flights, events, lastSubmit>>
    /\ UNCHANGED <<serverVars, pureVars>>

\* handleSchoolChange, and the input listener of signup.js
handleSchoolChange(value) ==
    /\ page.location = "/"
    /\ ~signupForm.isLoading
    /\ signupForm' = [signupForm EXCEPT !.school = value]
    /\ validationErrors' = [validationErrors EXCEPT !.school = ""]
    /\ page' = IF page.scriptLoaded /\ page.scriptError.field = "school"
               THEN [page EXCEPT !.scriptError = NoScriptError] ELSE page
    /\ UNCHANGED <<flights, events, lastSubmit>>
    /\ UNCHANGED <<serverVars, pureVars>>

\* the form is submitted, which the browser does while the button is enabled:
\* the submit event runs handleSubmit of signup.js (lines 188-226, when it is
\* loaded; the listener on the form itself runs first) and then handleSubmit
\* of page.tsx (lines 337-372), each up to the await of its fetch
Submit ==
    /\ page.location = "/"
    /\ ~page.buttonDisabled
    /\ lastSubmit.n < MaxSubmits
    /\ LET e == signupForm.email
           s == signupForm.school
           sc == scriptCheck[e][s]
           ui == uiCheck[e][s]
           scriptPosts == page.scriptLoaded /\ sc.error = NoScriptError
           reactPosts == ~hasErrors(ui.errors)
           page1 == IF ~page.scriptLoaded THEN page
                    ELSE IF sc.error # NoScriptError
                    THEN [page EXCEPT !.scriptError = sc.error]
                    ELSE [page EXCEPT !.buttonDisabled = TRUE]
           form2 == IF reactPosts
                    THEN [signupForm EXCEPT !.isLoading = TRUE, !.error = ""]
                    ELSE signupForm
           flight(by) == [by |-> by, email |-> e, school |-> s]
       IN  /\ signupForm' = form2
           /\ validationErrors' = ui.errors
           /\ page' = [page1 EXCEPT
                         !.buttonDisabled = render(signupForm, form2, page1.buttonDisabled)]
           /\ flights' = flights
                            \o (IF scriptPosts THEN <<flight("script")>> ELSE <<>>)
                            \o (IF reactPosts THEN <<flight("react")>> ELSE <<>>)
           /\ events' = events
           /\ lastSubmit' = [n |-> lastSubmit.n + 1,
                             posts |-> (IF scriptPosts THEN 1 ELSE 0)
                                          + (IF reactPosts THEN 1 ELSE 0),
                             rejected |-> hasErrors(ui.errors)]
    /\ UNCHANGED <<serverVars, pureVars>>

\* page.tsx lines 374-424: the fetch of handleSubmit settles.  sb1 is
\* window.splitbee at the call of track in the try block, sb2 at the call in
\* the catch block; an error thrown in the catch block ends the handler
React_settle(k, a, onLine, sb1, sb2) ==
    /\ page.location = "/"
    /\ k \in 1..Len(flights)
    /\ flights[k].by = "react"
    /\ LET answer == Answers[a]
           formData == uiCheck[flights[k].email][flights[k].school].formData
           domain == emailDomain(formData.email)
           failed == answer.kind = "reject" \/ ~answer.ok \/ ~answer.result.success
           trackThrew == ~failed /\ sb1 = "throws"
           caught == failed \/ trackThrew
           message == IF answer.kind = "reject" THEN answer.message
                      ELSE IF failed THEN errorMessage(answer, onLine)
                      ELSE "splitbee.track failed"
           tried == IF ~failed /\ sb1 = "ok"
                    THEN {Event("react", domain, truthy(formData.school),
                                Str(answer.result.subscriber_id))}
                    ELSE {}
           form2 == IF ~caught
                    THEN [signupForm EXCEPT !.isSubmitted = TRUE, !.isLoading = FALSE]
                    ELSE IF sb2 = "throws" THEN signupForm
                    ELSE [signupForm EXCEPT !.isLoading = FALSE, !.error = message]
       IN  /\ signupForm' = form2
           /\ page' = [page EXCEPT
                         !.buttonDisabled = render(signupForm, form2, page.buttonDisabled)]
           /\ events' = events \cup tried
    /\ flights' = dropAt(flights, k)
    /\ UNCHANGED <<validationErrors, lastSubmit>>
    /\ UNCHANGED <<serverVars, pureVars>>

\* signup.js lines 208-243: the fetch of its handleSubmit settles; trackAnalytics
\* swallows what track throws; the finally block enables the button
Script_settle(k, a, sb) ==
    /\ page.location = "/"
    /\ k \in 1..Len(flights)
    /\ flights[k].by = "script"
    /\ LET answer == Answers[a]
           data == scriptCheck[flights[k].email][flights[k].school].data
           domain == emailDomain(data.email)
           event == Event("script", domain, data.school # <<>>,
                          Str(answer.result.subscriber_id))
       IN  /\ events' = IF answer.kind = "http" /\ answer.ok /\ sb = "ok"
                        THEN events \cup {event} ELSE events
           /\ page' = IF answer.kind = "reject"
                      THEN [page EXCEPT
                              !.scriptError = [text |-> "Connection issue. Please try again.",
                                               field |-> ""],
                              !.buttonDisabled = FALSE]
                      ELSE IF ~answer.ok
                      THEN [page EXCEPT
                              !.scriptError = [text |-> scriptErrorMessage(answer),
                                               field |-> ""],
                              !.buttonDisabled = FALSE]
                      ELSE [page EXCEPT !.scriptSuccess = TRUE, !.timer = TRUE,
                                        !.buttonDisabled = FALSE]
    /\ flights' = dropAt(flights, k)
    /\ UNCHANGED <<signupForm, validationErrors, lastSubmit>>
    /\ UNCHANGED <<serverVars, pureVars>>

\* signup.js lines 178-181: the timer of showSuccess fires
redirect ==
    /\ page.location = "/"
    /\ page.timer
    /\ page' = [page EXCEPT !.timer = FALSE, !.location = "/thank-you.html"]
    /\ UNCHANGED <<signupForm, validationErrors, flights, events, lastSubmit>>
    /\ UNCHANGED <<serverVars, pureVars>>

\* the page in the browser: the script loads, the user types and submits, the
\* fetches settle, the timer fires
NextClient ==
    \/ initializeForm
    \/ \E value \in DOMAIN EmailTexts : handleEmailChange(value)
    \/ \E value \in DOMAIN SchoolTexts : handleSchoolChange(value)
    \/ Submit
    \/ \E k \in 1..(2 * MaxSubmits), a \in DOMAIN Answers, onLine \in BOOLEAN,
          sb1 \in Splitbee, sb2 \in Splitbee : React_settle(k, a, onLine, sb1, sb2)
    \/ \E k \in 1..(2 * MaxSubmits), a \in DOMAIN Answers, sb \in Splitbee :
          Script_settle(k, a, sb)
    \/ redirect

SpecClient == Init /\ [][NextClient]_vars

\* the page with every fetch settling in the end: it resolves with a response
\* or rejects, and the handler that awaits it is resumed
SpecClientLive ==
    /\ Init
    /\ [][NextClient]_vars
    /\ WF_vars(\E k \in 1..(2 * MaxSubmits), a \in DOMAIN Answers, onLine \in BOOLEAN,
                  sb1 \in Splitbee, sb2 \in Splitbee : React_settle(k, a, onLine, sb1, sb2))
    /\ WF_vars(\E k \in 1..(2 * MaxSubmits), a \in DOMAIN Answers, sb \in Splitbee :
                  Script_settle(k, a, sb))

(***************************************************************************)
(* C1                                                                      *)
(***************************************************************************)
\* the window a key is in after the calls of h, as the claim counts it: the first
\* call of a key opens a window of 15 minutes, and so does the first call made
\* after the running window has elapsed; n is the rank of the last call in it
RECURSIVE windowOf(_, _)
windowOf(h, ip) ==
    IF h = <<>> THEN [n |-> 0, start |-> 0]
    ELSE LET prev == windowOf(SubSeq(h, 1, Len(h) - 1), ip)
             c == h[Len(h)]
         IN  IF c.ip # ip THEN prev
             ELSE IF prev.n = 0 \/ c.t > prev.start + 900000
                  THEN [n |-> 1, start |-> c.t]
                  ELSE [n |-> prev.n + 1, start |-> prev.start]

\* C1: the 1st to 5th calls of a window are allowed with remaining 4, 3, 2, 1, 0
\* and the reset time of the window; the 6th is denied with remaining 0 and the
\* same reset time; the first call after the window has elapsed is allowed with
\* remaining 4 and opens a new window; the entry counts the calls of the window.
C1_RateLimitBoundary ==
    \A i \in 1..Len(hist) :
        LET w == windowOf(SubSeq(hist, 1, i), hist[i].ip)
        IN  /\ w.n <= 5 =>
                /\ hist[i].allowed
                /\ hist[i].remaining = 5 - w.n
                /\ hist[i].resetTime = w.start + 900000
            /\ w.n = 6 =>
                /\ ~hist[i].allowed
                /\ hist[i].remaining = 0
                /\ hist[i].resetTime = w.start + 900000
            /\ (i = Len(hist) /\ w.n <= 5 /\ now <= hist[i].resetTime) =>
                /\ hist[i].ip \in DOMAIN rateLimitStore
                /\ rateLimitStore[hist[i].ip].count = w.n

\* a key was denied on its 6th call, and called again after the window elapsed
C1_Witness ==
    \E i, j \in 1..Len(hist) :
        /\ i < j
        /\ hist[i].ip = hist[j].ip
        /\ windowOf(SubSeq(hist, 1, i), hist[i].ip).n = 6
        /\ ~hist[i].allowed
        /\ hist[j].t > hist[i].resetTime
        /\ hist[j].allowed
        /\ hist[j].remaining = 4

(***************************************************************************)
(* C2 to C10: the responses of POST.                                       *)
(***************************************************************************)
\* the request of the last response got past the rate-limit gate
passedGate == resp.res.status # 0 /\ resp.stage # "rateLimit"

\* C2: of the POSTs of one client address inside one window, each of the first
\* 5 passes the rate-limit gate and the 6th is answered 429 RATE_LIMITED at the
\* gate, whatever the earlier ones led to.
C2_QuotaOfSix ==
    /\ gate.n \in 1..5 => gate.allowed
    /\ gate.n = 6 => ~gate.allowed

\* C3: every 429 RATE_LIMITED response, from the gate or from a provider 429,
\* carries a Retry-After header of at least 1 second.
C3_RetryAfterPositive ==
    resp.res.status = 429 => resp.res.hasRetryAfter /\ resp.res.retryAfter >= 1

\* C3, the part of the gate alone: a 429 of the rate-limit gate carries a
\* Retry-After of at least 1 second, also at the instant now = resetTime.
C3_GateRetryAfterPositive ==
    (resp.res.status = 429 /\ resp.stage = "rateLimit") =>
        resp.res.hasRetryAfter /\ resp.res.retryAfter >= 1

\* C4: every response of POST carries the three X-RateLimit headers.
C4_RateLimitHeadersAlways ==
    resp.res.status # 0 => resp.res.rateLimitHeaders

\* the email of a body passes field validation
emailAccepted(body) ==
    /\ body.t = "obj"
    /\ truthy(body.email)
    /\ validateEmailFormat(sanitizeInput(body.email))

\* the school of a body passes the length check the handler makes on it
schoolAccepted(body) ==
    ~truthy(body.school) \/ Len(sanitizeInput(body.school)) <= 100

\* the three checks on the inputs of the model, by name
emailOk == [b \in DOMAIN Bodies |-> emailAccepted(Bodies[b])]
schoolOk == [b \in DOMAIN Bodies |-> Bodies[b].t = "obj" /\ schoolAccepted(Bodies[b])]
envOk == [e \in DOMAIN Envs |-> validateEnvironmentVariables(Envs[e])]

messageContains(reply, text) ==
    /\ reply.body.t = "obj"
    /\ truthy(reply.body.error)
    /\ truthy(reply.body.error.message)
    /\ includes(reply.body.error.message.v, text)

\* the response to the provider's status 429, 400 or other non-2xx, given which
\* 400 replies are duplicates
errorMapping(isDuplicate(_)) ==
    (resp.reply # "" /\ Replies[resp.reply].kind = "http") =>
        LET reply == Replies[resp.reply]
        IN  /\ reply.status = 429 =>
                  resp.res.status = 429 /\ resp.res.error = "RATE_LIMITED"
            /\ (reply.status = 400 /\ isDuplicate(reply)) =>
                  resp.res.status = 400 /\ resp.res.error = "DUPLICATE_EMAIL"
            /\ (reply.status = 400 /\ ~isDuplicate(reply)) =>
                  resp.res.status = 500 /\ resp.res.error = "API_ERROR"
            /\ (reply.status \notin {400, 429} /\ reply.status \notin 200..299) =>
                  resp.res.status = 500 /\ resp.res.error = "API_ERROR"

\* C6 as stated: provider 429 gives 429 RATE_LIMITED; provider 400 whose message
\* contains "already exists" gives 400 DUPLICATE_EMAIL; provider 400 with any
\* other body, and every other non-2xx status, gives 500 API_ERROR.
C6_Original ==
    errorMapping(LAMBDA reply : messageContains(reply, S_AlreadyExists))

\* C6 as amended: provider 400 whose message contains "already exists" or
\* "already subscribed" gives 400 DUPLICATE_EMAIL; the rest as stated.
C6_ProviderErrorMapping ==
    errorMapping(LAMBDA reply : \/ messageContains(reply, S_AlreadyExists)
                                \/ messageContains(reply, S_AlreadySubscribed))

\* a provider 400 "already subscribed" was answered as a duplicate, and some
\* other provider 400 as API_ERROR
C6_Witness ==
    \/ resp.reply = "subscribed" /\ resp.res.error = "DUPLICATE_EMAIL"
    \/ resp.reply = "invalid" /\ resp.res.error = "API_ERROR"

\* C7: when the provider call is aborted by the 10 s timeout, the response is
\* 500 NETWORK_ERROR.
C7_TimeoutIsNetworkError ==
    (resp.reply # "" /\ Replies[resp.reply].kind = "reject"
        /\ Replies[resp.reply].name \in {"TimeoutError", "AbortError"}) =>
        resp.res.status = 500 /\ resp.res.error = "NETWORK_ERROR"

\* a reply body carries a nested id, a flat id
hasNestedId(body) == truthy(body.data) /\ truthy(body.data.id)
hasFlatId(body) == truthy(body.id)

\* C8: on a provider 2xx reply whose body is an object the response is 200 with
\* success = true and subscriber_id the nested data.id when there is one, else
\* the flat id when there is one, and "unknown" only when there is neither.
C8_SubscriberId ==
    (resp.reply # "" /\ Replies[resp.reply].kind = "http"
        /\ Replies[resp.reply].status \in 200..299
        /\ Replies[resp.reply].body.t = "obj") =>
        LET body == Replies[resp.reply].body
        IN  /\ resp.res.status = 200
            /\ resp.res.success
            /\ hasNestedId(body) => resp.res.subscriber_id = body.data.id.v
            /\ (~hasNestedId(body) /\ hasFlatId(body)) =>
                  resp.res.subscriber_id = body.id.v
            /\ resp.res.subscriber_id = S_Unknown =>
                  ~hasNestedId(body) /\ ~hasFlatId(body)
            /\ resp.reply = "okFlat" => resp.res.subscriber_id = S_123

\* the provider's body carried both ids and the nested one was returned
C8_Witness ==
    /\ resp.reply = "okBoth"
    /\ resp.res.status = 200
    /\ resp.res.subscriber_id = S_123

\* C9: a request past the first two gates with a valid email and a school of
\* more than 100 characters is answered 400 INVALID_SCHOOL, with no provider call.
C9_LongSchoolRejected ==
    (passedGate /\ resp.body # "" /\ emailOk[resp.body]
        /\ truthy(Bodies[resp.body].school)
        /\ Len(Bodies[resp.body].school.v) > 100) =>
        /\ resp.res.status = 400
        /\ resp.res.error = "INVALID_SCHOOL"
        /\ resp.calls = 0

\* C10: a request past the rate-limit gate whose body is not JSON, by its
\* Content-Type header or because the body does not parse, is answered 400
\* INVALID_CONTENT_TYPE, with no provider call.
C10_NotJsonRejected ==
    (passedGate /\ (\/ ~isJson(ContentTypes[resp.contentType])
                    \/ (resp.body # "" /\ Bodies[resp.body] = BadJson))) =>
        /\ resp.res.status = 400
        /\ resp.res.error = "INVALID_CONTENT_TYPE"
        /\ resp.calls = 0

(***************************************************************************)
(* C11 and C12: the field gate and the configuration gate.                 *)
(***************************************************************************)
\* C11: a request past the first two gates whose body parses as JSON and whose
\* email is missing, empty, not a string or not an address, or whose body is
\* not an object carrying an email (JSON null), is answered 400 INVALID_EMAIL.
C11_InvalidEmail ==
    (passedGate /\ resp.body # "" /\ Bodies[resp.body] # BadJson
        /\ ~emailOk[resp.body]) =>
        resp.res.status = 400 /\ resp.res.error = "INVALID_EMAIL"

\* a credential is absent, is a placeholder
absent(x) == x.t \in {"undefined", "null"} \/ (x.t = "str" /\ x.v = <<>>)
placeholder(x) ==
    x.t = "str" /\ (startsWith(x.v, S_TODO) \/ includes(x.v, S_Your)
                       \/ includes(x.v, S_PleaseReplace))

\* the credentials of an environment that the configuration gate is to refuse
refused(env) ==
    \/ absent(env.apiKey) \/ absent(env.groupId)
    \/ placeholder(env.apiKey) \/ placeholder(env.groupId)
    \/ Len(env.apiKey.v) < 100 \/ Len(env.apiKey.v) > 2000
    \/ \E i \in 1..Len(env.groupId.v) : env.groupId.v[i] \notin Digit

\* refused on the environments of the model, by name
envRefused == [e \in DOMAIN Envs |-> refused(Envs[e])]

C13_OneInFlight == Len(flights) <= 1

\* C14: one submit of the form that passes the validation of page.tsx leads
\* to exactly one POST to /api/signup, counting all submit listeners.
C14_OnePostPerSubmit ==
    (lastSubmit.n > 0 /\ ~lastSubmit.rejected) => lastSubmit.posts = 1

\* C15: a submit whose trimmed values fail the validation of page.tsx sets
\* the field errors, sends no request to /api/signup and does not set isLoading.
C15_RejectedSendsNothing ==
    [][(Submit /\ lastSubmit'.rejected) =>
          /\ hasErrors(validationErrors')
          /\ flights' = flights
          /\ lastSubmit'.posts = 0
          /\ signupForm'.isLoading = signupForm.isLoading]_vars

\* the response to a fetch is not a success, or the fetch failed
isFailure(answer) ==
    answer.kind = "reject" \/ ~answer.ok \/ ~answer.result.success

\* C16: when a submission fails, by a response that is not a success or by a
\* failed fetch, the handler of page.tsx leaves isLoading = false, a message
\* in error that is not empty, and the email and school of the form as they were.
C16_FailureKeepsForm ==
    [][\A k \in 1..(2 * MaxSubmits), a \in DOMAIN Answers, onLine \in BOOLEAN,
          sb1 \in Splitbee, sb2 \in Splitbee :
          (React_settle(k, a, onLine, sb1, sb2) /\ isFailure(Answers[a])) =>
              /\ ~signupForm'.isLoading
              /\ signupForm'.error # ""
              /\ signupForm'.email = signupForm.email
              /\ signupForm'.school = signupForm.school]_vars

\* C17: once the handler of page.tsx has had a success response and nothing
\* is pending any more (no fetch, no timer), the browser is at /thank-you.html.
C17_SuccessNavigates ==
    (signupForm.isSubmitted /\ flights = <<>> /\ ~page.timer) =>
        page.location = "/thank-you.html"

\* C18: whatever window.splitbee.track does, also when it throws, a success
\* response leaves isSubmitted = true with isLoading = false and no error, and
\* a failure leaves isLoading = false with an error message.
C18_AnalyticsNeverBlocks ==
    [][\A k \in 1..(2 * MaxSubmits), a \in DOMAIN Answers, onLine \in BOOLEAN,
          sb1 \in Splitbee, sb2 \in Splitbee :
          React_settle(k, a, onLine, sb1, sb2) =>
              IF isFailure(Answers[a])
              THEN ~signupForm'.isLoading /\ signupForm'.error # ""
              ELSE /\ signupForm'.isSubmitted
                   /\ ~signupForm'.isLoading
                   /\ signupForm'.error = ""]_vars

\* the messages of the table: duplicate email, rate-limited, service
\* unavailable, generic failure, offline
FixedMessages ==
    { "This email is already on our waitlist!",
      "Too many requests. Please wait a moment and try again.",
      "Service temporarily unavailable. Please try again later.",
      "Something went wrong. Please try again.",
      "Connection issue. Please check your internet and try again." }

\* C19: the error the handler of page.tsx shows after a submission is one of
\* the messages of the table, and the offline message when the fetch failed.
C19_TableMessages ==
    [][\A k \in 1..(2 * MaxSubmits), a \in DOMAIN Answers, onLine \in BOOLEAN,
          sb1 \in Splitbee, sb2 \in Splitbee :
          (React_settle(k, a, onLine, sb1, sb2) /\ signupForm'.error # "") =>
              /\ signupForm'.error \in FixedMessages
              /\ Answers[a].kind = "reject" =>
                    signupForm'.error =
                        "Connection issue. Please check your internet and try again."]_vars

(***************************************************************************)
(* C20                                                                     *)
(***************************************************************************)
\* C20: sanitizeInput(sanitizeInput(x)) = sanitizeInput(x) for every string x.
C20_Idempotent ==
    Len(results) >= 2 => results[2] = results[1]

(***************************************************************************)
(* C21 to C28: the handler over every request.                             *)
(***************************************************************************)
\* C21: every request body sent to the provider carries an email that is not
\* empty, has at most 254 characters and is accepted by validateEmailFormat,
\* and a school that, when the body has one, has at most 100 characters.
C21_ForwardedPayload ==
    \A i \in 1..MaxInflight :
        slot[i].pc = "fetch" =>
            /\ slot[i].payload.email # <<>>
            /\ Len(slot[i].payload.email) <= 254
            /\ validateEmailFormat(slot[i].payload.email)
            /\ truthy(slot[i].payload.school) => Len(slot[i].payload.school.v) <= 100

\* a school of 101 characters was sent on, cut to 100
C21_Witness ==
    \E i \in 1..MaxInflight :
        /\ slot[i].pc = "fetch"
        /\ slot[i].body = "longSchool"
        /\ Len(slot[i].payload.school.v) = 100

\* a header the request carries
present(x) == x # Null

\* a header the request carries with a value that is not empty
nonEmpty(x) == x # Null /\ x.v # <<>>

\* the request carries none of the three headers
bare(h) == ~present(h.forwarded) /\ ~present(h.realIP) /\ ~present(h.cfConnectingIP)

\* the first value of a comma-separated list, without the white space around it
firstValue(s) ==
    LET n == IF \E i \in 1..Len(s) : s[i] = ","
             THEN (CHOOSE i \in 1..Len(s) : s[i] = "," /\ \A j \in 1..(i - 1) : s[j] # ",") - 1
             ELSE Len(s)
    IN  trim(SubSeq(s, 1, n))

C23_QuotaUnderInterleaving ==
    /\ \A ip \in DOMAIN arrivals :
          /\ arrivals[ip].passes <= 5
          /\ (ip \in DOMAIN rateLimitStore
                /\ rateLimitStore[ip].resetTime = arrivals[ip].reset) =>
                 rateLimitStore[ip].count >= arrivals[ip].passes
    /\ \A ip \in DOMAIN rateLimitStore :
          rateLimitStore[ip].count >= 1 /\ rateLimitStore[ip].count <= 5

\* two requests are suspended, one at the await of its body and one at the
\* await of the provider, and five requests of the key have passed the gate
C23_Witness ==
    /\ \E i, j \in 1..MaxInflight : slot[i].pc = "body" /\ slot[j].pc = "fetch"
    /\ S_IP1 \in DOMAIN arrivals
    /\ arrivals[S_IP1].passes = 5
    /\ rateLimitStore[S_IP1].count = 5

\* the store of a limiter that is never swept, after the calls of h
RECURSIVE unswept(_)
unswept(h) ==
    IF h = <<>> THEN <<>>
    ELSE checkRateLimit(unswept(SubSeq(h, 1, Len(h) - 1)),
                        h[Len(h)].ip, h[Len(h)].t).store

\* C24: the sweeps, at whatever points they run, have deleted only entries
\* whose reset time is in the past and left the others as they are in a limiter
\* that is never swept, and the call of checkRateLimit made last has returned
\* the allowed, remaining and resetTime that the unswept limiter returns after
\* the same sequence of calls.
C24_SweepTransparent ==
    hist # <<>> =>
        LET last == hist[Len(hist)]
            r == checkRateLimit(unswept(SubSeq(hist, 1, Len(hist) - 1)), last.ip, last.t)
        IN  /\ last.allowed = r.allowed
            /\ last.remaining = r.remaining
            /\ last.resetTime = r.resetTime
            /\ DOMAIN rateLimitStore \subseteq DOMAIN r.store
            /\ \A k \in DOMAIN r.store :
                  IF k \in DOMAIN rateLimitStore
                  THEN rateLimitStore[k] = r.store[k]
                  ELSE r.store[k].resetTime < now

\* the sweep has deleted the entry of a key that the unswept limiter still
\* holds, and a call was made after the window of that entry had ended
C24_Witness ==
    /\ hist # <<>>
    /\ \E ip \in DOMAIN unswept(hist) :
          /\ ip \notin DOMAIN rateLimitStore
          /\ hist[Len(hist)].t > unswept(hist)[ip].resetTime

\* the status and error value of the responses the endpoint documents, and the
\* success response
ResponseTable ==
    { <<200, "">>, <<400, "INVALID_EMAIL">>, <<400, "INVALID_SCHOOL">>,
      <<400, "DUPLICATE_EMAIL">>, <<400, "INVALID_CONTENT_TYPE">>,
      <<429, "RATE_LIMITED">>, <<500, "MISSING_CONFIG">>, <<500, "NETWORK_ERROR">>,
      <<500, "API_ERROR">> }

\* the invocations of POST suspended at an await
suspended == {i \in 1..MaxInflight : slot[i].pc # "idle"}

\* C25: every invocation of POST returns, and returns one response: a response
\* whose status and error value are in the documented table, with a message,
\* and success exactly when the status is 200; the invocations begun are the
\* ones that have returned once and the ones suspended, every suspended one
\* returns in the end, whatever the provider does; and the entries of the
\* rate-limit store stay well-formed.
C25_AlwaysOneResponse ==
    /\ [](/\ resp.n + Cardinality(suspended) = nposts
          /\ resp.n > 0 =>
                /\ <<resp.res.status, resp.res.error>> \in ResponseTable
                /\ resp.res.message # ""
                /\ resp.res.success <=> resp.res.status = 200
          /\ \A k \in DOMAIN rateLimitStore :
                /\ rateLimitStore[k].count \in 1..maxRequests
                /\ rateLimitStore[k].resetTime >= windowMs)
    /\ \A i \in 1..MaxInflight : (slot[i].pc # "idle") ~> (slot[i].pc = "idle")

\* the provider call of a request timed out, and the request was answered
C25_Witness ==
    /\ resp.n = 1
    /\ nposts = 1
    /\ suspended = {}
    /\ resp.reply = "timeout"
    /\ resp.res.status = 500

\* the text holds a fragment of the key: a run of four or more of its characters
holdsFragment(data, key) ==
    \E i \in 1..(Len(key) - 3) : includes(data, SubSeq(key, i, i + 3))

\* C26: no line logged while a POST is handled, at any level and so in
\* development as in production, holds a fragment of the API key or the whole
\* of the submitted email address.
C26_LogSecrecy ==
    resp.n > 0 =>
        \A k \in 1..Len(resp.log) :
            /\ (resp.env # "" /\ truthy(Envs[resp.env].apiKey)) =>
                  ~holdsFragment(resp.log[k].data, Envs[resp.env].apiKey.v)
            /\ (resp.body # "" /\ Bodies[resp.body].t = "obj"
                  /\ Bodies[resp.body].email.t = "str"
                  /\ Bodies[resp.body].email.v # <<>>) =>
                  ~includes(resp.log[k].data, Bodies[resp.body].email.v)

\* C27: a POST that the rate-limit gate lets through takes one unit of the
\* quota of its address there, whatever its content type, and the rejection
\* of its email or of the configuration takes nothing more and gives nothing
\* back; so the 6th POST of an address in a window is answered 429 at the
\* gate, without a provider call, also when the five before it were rejected.
C27_QuotaBeforeValidation ==
    [][/\ \A i \in 1..MaxInflight, h \in QuotaHeaders, ct \in SequenceContentTypes :
             POST_begin(i, h, ct) =>
                 LET ip == getClientIP(h)
                     before == IF ip \in DOMAIN rateLimitStore
                                  /\ now <= rateLimitStore[ip].resetTime
                               THEN rateLimitStore[ip].count ELSE 0
                 IN  /\ gate'.allowed =>
                           /\ ip \in DOMAIN rateLimitStore'
                           /\ rateLimitStore'[ip].count = before + 1
                     /\ gate'.n = 6 =>
                           /\ ~gate'.allowed
                           /\ resp'.res.status = 429
                           /\ resp'.res.error = "RATE_LIMITED"
                           /\ resp'.stage = "rateLimit"
                           /\ resp'.calls = 0
       /\ \A i \in 1..MaxInflight, b \in SequenceBodies, e \in SequenceEnvs :
             (POST_body(i, b, e) /\ validated[b][e].stop # "") =>
                 rateLimitStore' = rateLimitStore]_vars

\* five POSTs of a window passed the gate and were rejected, not one was
\* subscribed, and the 6th, of content type application/json, was answered 429
C27_Witness ==
    /\ gate.n = 6
    /\ ~gate.allowed
    /\ resp.stage = "rateLimit"
    /\ resp.contentType = "json"
    /\ arrivals[gate.key].passes = 5
    /\ rateLimitStore[gate.key].count = 5
    /\ now <= rateLimitStore[gate.key].resetTime

\* the client-side validator accepts the email of a body, as the form sends it
uiAccepts ==
    [b \in DOMAIN Bodies |->
        /\ Bodies[b].t = "obj"
        /\ Bodies[b].email.t = "str"
        /\ Bodies[b].email.v = trim(Bodies[b].email.v)
        /\ validateEmailForUI(Bodies[b].email.v) = ""]

\* C28: when the client-side validator accepts the trimmed email of the form,
\* the email the server sends to the provider for it is that very email.
C28_AddressIntegrity ==
    \A i \in 1..MaxInflight :
        (slot[i].pc = "fetch" /\ uiAccepts[slot[i].body]) =>
            slot[i].payload.email = Bodies[slot[i].body].email.v

(***************************************************************************)
(* C29 and C30: the state of the form of page.tsx.                         *)
(***************************************************************************)
\* C29: once a submit has set isLoading, the handler of page.tsx sets it back
\* to false when its fetch has settled, whatever the response is and whatever
\* window.splitbee.track does; a page that has been left for /thank-you.html
\* has no form any more.
C29_LoadingEnds ==
    (signupForm.isLoading /\ page.location = "/")
        ~> (~signupForm.isLoading \/ page.location # "/")

\* C30: in every state of the form of page.tsx, isSubmitted implies that
\* isLoading is false and that error is null.
C30_SubmittedIsFinal ==
    signupForm.isSubmitted => (~signupForm.isLoading /\ signupForm.error = "")
====
